---- MODULE Spec2Model ----
(***************************************************************************)
(* Gray-release routing engine of wechat-snippets                          *)
(* (src/enableGrayVersion/index.js).                                       *)
(*                                                                         *)
(* JavaScript strings are modelled as sequences of one-character strings,  *)
(* so that startsWith, slice, split and join are computed, not assumed.    *)
(* JavaScript objects are modelled as functions whose DOMAIN is the set of *)
(* own properties; an absent property reads as undefined.  The value ''    *)
(* that wx.getStorageSync returns for a missing key has no property the    *)
(* code reads, so it is the object without properties, like {}.            *)
(***************************************************************************)
EXTENDS Naturals, Sequences, FiniteSets

(***************************************************************************)
(* Bounds of the model.                                                    *)
(***************************************************************************)
\* most asynchronous setGrayVersionStorage calls in flight at once
MaxPending == 2
\* deepest navigation stack explored
MaxPages == 2
\* most times enableGrayVersion wraps the wx navigation operations
MaxWrap == 2

(***************************************************************************)
(* String primitives.                                                      *)
(***************************************************************************)
\* String.prototype.startsWith
startsWith(s, p) == Len(p) <= Len(s) /\ SubSeq(s, 1, Len(p)) = p

\* String.prototype.slice(n) / substring(n) for 0 <= n
slice(s, n) == IF n >= Len(s) THEN <<>> ELSE SubSeq(s, n + 1, Len(s))

\* position of the first occurrence of character c in s, 0 when there is none
RECURSIVE indexFrom(_, _, _)
indexFrom(s, c, i) ==
    IF i > Len(s) THEN 0
    ELSE IF s[i] = c THEN i
    ELSE indexFrom(s, c, i + 1)

\* String.prototype.split(c): empty segments are kept, '' splits to ['']
RECURSIVE split(_, _)
split(s, c) ==
    LET i == indexFrom(s, c, 1)
    IN  IF i = 0 THEN <<s>>
        ELSE <<SubSeq(s, 1, i - 1)>> \o split(slice(s, i), c)

\* Array.prototype.join(c): [] joins to ''
RECURSIVE join(_, _)
join(parts, c) ==
    IF Len(parts) = 0 THEN <<>>
    ELSE IF Len(parts) = 1 THEN parts[1]
    ELSE parts[1] \o <<c>> \o join(Tail(parts), c)

\* Array.prototype.pop(): a no-op on the empty array
pop(stack) == IF Len(stack) = 0 THEN stack ELSE SubSeq(stack, 1, Len(stack) - 1)

\* list.some(x => s.startsWith(x)), and Array.prototype.includes
some(list, s) == \E i \in 1..Len(list) : startsWith(s, list[i])
includes(list, x) == \E i \in 1..Len(list) : list[i] = x

\* property read with the destructuring default / `|| default`
Get(obj, f, default) == IF f \in DOMAIN obj THEN obj[f] ELSE default

(***************************************************************************)
(* Program constants.                                                      *)
(***************************************************************************)
SUBPACKAGES_ROOT == <<"g","r","a","y","V","e","r","s","i","o","n">>

\* page paths of the application: 'p/a' has a gray counterpart, 'p/n' has none
PageA == <<"p","/","a">>
PageN == <<"p","/","n">>
GrayPageA == SUBPACKAGES_ROOT \o <<"/">> \o PageA

\* grayPages.js: the page paths of the grayVersion sub-package, written
\* relative to the sub-package root (header comment, "使用方法" step 1)
GRAY_PAGES == <<PageA>>

\* the pages app.json registers: the main package and the gray sub-package
AppPages == {PageA, PageN, GrayPageA}

(***************************************************************************)
(* Rule Evaluator.                                                         *)
(***************************************************************************)
SentinelAll == <<"a","l","l">>

\* checkIsGrayVersionTargetUser, were it to look for the sentinel in the whole list
checkIsGrayVersionTargetUser_SentinelAnywhere(rule, userInfo) ==
    LET isOpen      == Get(rule, "isOpen", FALSE)
        areaCode    == Get(rule, "areaCode", <<>>)
        phonePrefix == Get(rule, "phonePrefix", <<>>)
        whiteList   == Get(rule, "whiteList", <<>>)
        all         == Get(rule, "all", FALSE)
        userAreaCode    == Get(userInfo, "areaCode", <<>>)
        userMobilePhone == Get(userInfo, "mobilePhone", <<>>)
    IN  IF ~isOpen THEN FALSE
        ELSE IF all THEN TRUE
        ELSE IF includes(areaCode, SentinelAll) THEN TRUE
        ELSE IF some(areaCode, userAreaCode) THEN TRUE
        ELSE IF Len(phonePrefix) > 0 /\ startsWith(userMobilePhone, phonePrefix) THEN TRUE
        ELSE IF includes(whiteList, userMobilePhone) THEN TRUE
        ELSE FALSE

checkIsGrayVersionTargetUser(rule, userInfo) ==
    LET isOpen      == Get(rule, "isOpen", FALSE)
        areaCode    == Get(rule, "areaCode", <<>>)
        phonePrefix == Get(rule, "phonePrefix", <<>>)
        whiteList   == Get(rule, "whiteList", <<>>)
        all         == Get(rule, "all", FALSE)
        userAreaCode    == Get(userInfo, "areaCode", <<>>)
        userMobilePhone == Get(userInfo, "mobilePhone", <<>>)
    IN  IF ~isOpen THEN FALSE
        ELSE IF all THEN TRUE
        ELSE IF Len(areaCode) >= 1 /\ areaCode[1] = SentinelAll THEN TRUE
        ELSE IF some(areaCode, userAreaCode) THEN TRUE
        ELSE IF Len(phonePrefix) > 0 /\ startsWith(userMobilePhone, phonePrefix) THEN TRUE
        ELSE IF includes(whiteList, userMobilePhone) THEN TRUE
        ELSE FALSE

(***************************************************************************)
(* Path Normalizer.                                                        *)
(***************************************************************************)
RECURSIVE applyParts(_, _, _)
applyParts(stack, parts, i) ==
    IF i > Len(parts) THEN stack
    ELSE IF parts[i] = <<".">> THEN applyParts(stack, parts, i + 1)
    ELSE IF parts[i] = <<".", ".">> THEN applyParts(pop(stack), parts, i + 1)
    ELSE applyParts(Append(stack, parts[i]), parts, i + 1)

\* fixRelativeUrl, were it to resolve against the current page's path, file name included
fixRelativeUrl_KeepFileName(base, relative) ==
    IF startsWith(relative, <<"/">>) THEN slice(relative, 1)
    ELSE join(applyParts(split(base, "/"), split(relative, "/"), 1), "/")

\* fixRelativeUrl, were it to leave the leading separator of an absolute target in place
fixRelativeUrl_KeepSeparator(base, relative) ==
    IF startsWith(relative, <<"/">>) THEN relative
    ELSE join(applyParts(pop(split(base, "/")), split(relative, "/"), 1), "/")

fixRelativeUrl(base, relative) ==
    IF startsWith(relative, <<"/">>) THEN slice(relative, 1)
    ELSE join(applyParts(pop(split(base, "/")), split(relative, "/"), 1), "/")

(***************************************************************************)
(* Values the model draws its inputs from.                                 *)
(***************************************************************************)
\* {} and the '' of a missing storage key: no own property
EmptyObj == [f \in {} |-> FALSE]

\* rules passed to enableGrayVersion (EmptyObj: the default argument {})
RuleClosed == [isOpen |-> FALSE, all |-> TRUE]
RuleOpen   == [isOpen |-> TRUE]
RuleTest   == [isTest |-> TRUE, isOpen |-> TRUE, areaCode |-> <<<<"1","1">>, <<"3","1">>>>,
               phonePrefix |-> <<"1","3","8">>, whiteList |-> <<<<"1","3","9">>>>]
EnableRules == {EmptyObj, RuleClosed, RuleOpen, RuleTest}

\* rules the backend answers with (data.data of /api/grayVersionRule)
RuleArea     == [isOpen |-> TRUE, areaCode |-> <<<<"1","1">>>>]
BackendRules == {RuleArea}

\* user attributes (EmptyObj: userInfo undefined or without the fields)
UserArea == [areaCode |-> <<"1","1","0">>, mobilePhone |-> <<"1","5","0">>]
Users == {EmptyObj, UserArea}

\* query parameters of a page: the ordered key/value pairs of options.query
NoQuery == <<>>
QueryId == << <<<<"i","d">>, <<"1">>>> >>

\* url arguments of navigation calls
UrlA     == <<"/">> \o PageA
UrlAQ    == <<"/">> \o PageA \o <<"?","i","d","=","1">>
UrlRelN  == <<".",".","/","p","/","n">>
UrlRelAQ == <<".","/","a","?","i","d","=","1">>
UrlGrayA == <<"/">> \o GrayPageA
NavUrls  == {UrlA, UrlAQ, UrlRelN, UrlRelAQ, UrlGrayA}
NavApis  == {"navigateTo", "redirectTo", "reLaunch"}

\* navigation calls: every url pushed with and without the notProxy mark, and
\* the absolute urls of both bundles through every operation
NavCalls ==
    [api : {"navigateTo"}, url : NavUrls, notProxy : BOOLEAN]
    \cup [api : NavApis, url : {UrlA, UrlGrayA}, notProxy : {FALSE}]
    \cup [api : {"redirectTo"}, url : {UrlGrayA}, notProxy : {TRUE}]

\* the grayPages argument of redirectToGrayPage (<<>>: the default [])
GrayPagesArgs == {GRAY_PAGES, <<>>}

(***************************************************************************)
(* State.                                                                  *)
(***************************************************************************)
VARIABLES
    isGrayVersionOpen,  \* the module-level feature toggle
    storage,            \* key GRAY_VERSION of wx storage: <<>> absent, <<record>> present
    wrapDepth,          \* how many times wx = wxProxy(wx) has wrapped the navigation api
    pages,              \* getCurrentPages(): sequence of [route, query]
    enterQuery,         \* wx.getEnterOptionsSync().query
    pending,            \* setGrayVersionStorage calls suspended at their await
    sinceEnable,        \* which calls wrote a decision since the last enableGrayVersion
    last                \* the last call or completion and what it did

vars == <<isGrayVersionOpen, storage, wrapDepth, pages, enterQuery, pending, sinceEnable, last>>

(***************************************************************************)
(* Decision Store.                                                         *)
(***************************************************************************)
\* wx.getStorageSync('GRAY_VERSION')
getStorageSync(st) == IF Len(st) = 0 THEN EmptyObj ELSE st[1]

\* wx.setStorageSync('GRAY_VERSION', record)
setStorageSync(record) == <<record>>

\* wx.removeStorageSync('GRAY_VERSION')
removeStorageSync == <<>>

\* Object.assign({}, rule, { isGrayVersion: isTargetUser })
withDecision(rule, isTargetUser) ==
    [f \in (DOMAIN rule) \cup {"isGrayVersion"} |->
        IF f = "isGrayVersion" THEN isTargetUser ELSE rule[f]]

isGrayVersionSync(st) == Get(getStorageSync(st), "isGrayVersion", FALSE)

(***************************************************************************)
(* Host platform: navigation stack and the unwrapped navigation api.       *)
(***************************************************************************)
NoPage == [route |-> <<>>, query |-> <<>>]

\* pages[pages.length - 1]
currentPage(pgs) == IF Len(pgs) = 0 THEN NoPage ELSE pgs[Len(pgs)]

\* the text of a url up to its '?', and the text after it
urlPath(url) ==
    LET q == indexFrom(url, "?", 1) IN IF q = 0 THEN url ELSE SubSeq(url, 1, q - 1)
urlSearch(url) ==
    LET q == indexFrom(url, "?", 1) IN IF q = 0 THEN <<>> ELSE slice(url, q)

\* 'k=v&k2=v2' as the ordered pairs of options.query
parseQuery(search) ==
    IF Len(search) = 0 THEN <<>>
    ELSE LET items == split(search, "&")
         IN  [i \in 1..Len(items) |->
                LET kv == split(items[i], "=")
                IN  <<kv[1], IF Len(kv) > 1 THEN kv[2] ELSE <<>>>>]

\* the page a url names for the platform: absolute, or relative to the current page
platformPage(pgs, url) ==
    LET path == urlPath(url)
        abs  == IF startsWith(path, <<"/">>) THEN slice(path, 1)
                ELSE join(applyParts(pop(split(currentPage(pgs).route, "/")),
                                     split(path, "/"), 1), "/")
    IN  [route |-> abs, query |-> parseQuery(urlSearch(url))]

\* whether the platform can carry out the navigation
canNavigate(pgs, nav) ==
    /\ platformPage(pgs, nav.url).route \in AppPages
    /\ nav.api = "navigateTo" => Len(pgs) < MaxPages

\* the navigation stack after the platform carried it out
navigated(pgs, nav) ==
    LET page == platformPage(pgs, nav.url)
    IN  IF nav.api = "navigateTo" THEN Append(pgs, page)
        ELSE IF nav.api = "redirectTo" THEN Append(pop(pgs), page)
        ELSE <<page>>

\* the stack after the navigations a handler handed to the platform
RECURSIVE afterNavs(_, _)
afterNavs(pgs, navs) ==
    IF Len(navs) = 0 THEN pgs
    ELSE afterNavs(IF canNavigate(pgs, Head(navs)) THEN navigated(pgs, Head(navs)) ELSE pgs,
                   Tail(navs))

(***************************************************************************)
(* Navigation Interceptor.                                                 *)
(***************************************************************************)
\* A call in flight through the wrappers: the object passed on, and the reads
\* of storage and of the navigation stack made for it so far.
Call(api, url, notProxy) ==
    [api |-> api, url |-> url, notProxy |-> notProxy, sreads |-> 0, preads |-> 0]

\* routeApiProxy, were it to add the prefix for every page once the decision is gray
routeApiProxy_AnyPage(call, pgs, st) ==
    IF call.notProxy THEN call
    ELSE LET fixed == fixRelativeUrl(currentPage(pgs).route, call.url)
             grayPrefix == SUBPACKAGES_ROOT \o <<"/">>
             url   == IF startsWith(fixed, grayPrefix)
                      THEN slice(fixed, Len(grayPrefix)) ELSE fixed
         IN  [call EXCEPT
                !.url = IF isGrayVersionSync(st)
                        THEN <<"/">> \o SUBPACKAGES_ROOT \o <<"/">> \o url
                        ELSE <<"/">> \o url,
                !.sreads = @ + 1,
                !.preads = @ + 1]

\* routeApiProxy, were it to rewrite the calls marked notProxy too
routeApiProxy_IgnoreMark(call, pgs, st) ==
    LET fixed == fixRelativeUrl(currentPage(pgs).route, call.url)
        grayPrefix == SUBPACKAGES_ROOT \o <<"/">>
        url   == IF startsWith(fixed, grayPrefix)
                 THEN slice(fixed, Len(grayPrefix)) ELSE fixed
    IN  [call EXCEPT
           !.url = IF some(GRAY_PAGES, url) /\ isGrayVersionSync(st)
                   THEN <<"/">> \o SUBPACKAGES_ROOT \o <<"/">> \o url
                   ELSE <<"/">> \o url,
           !.sreads = @ + 1,
           !.preads = @ + 1]

\* newWxRouteApi(object): one wrapper; its result is what it passes to wxRouteApi
routeApiProxy(call, pgs, st) ==
    IF call.notProxy THEN call
    ELSE LET source == currentPage(pgs).route
             fixed  == fixRelativeUrl(source, call.url)
             grayPrefix == SUBPACKAGES_ROOT \o <<"/">>
             url    == IF startsWith(fixed, grayPrefix)
                       THEN slice(fixed, Len(grayPrefix)) ELSE fixed
             isGrayVersion == isGrayVersionSync(st)
         IN  [call EXCEPT
                !.url = IF some(GRAY_PAGES, url) /\ isGrayVersion
                        THEN <<"/">> \o SUBPACKAGES_ROOT \o <<"/">> \o url
                        ELSE <<"/">> \o url,
                !.sreads = @ + 1,
                !.preads = @ + 1]

\* wx.navigateTo / redirectTo / reLaunch after wx = wxProxy(wx) ran depth times:
\* the result is the call as it reaches the platform's own operation
RECURSIVE wxProxy(_, _, _, _)
wxProxy(call, depth, pgs, st) ==
    IF depth = 0 THEN call
    ELSE wxProxy(routeApiProxy(call, pgs, st), depth - 1, pgs, st)

\* the record of a call that reached the platform's operation; decisionAtIssue is
\* what isGrayVersionSync() returns at that moment
Delegated(call, st) ==
    [api |-> call.api, url |-> call.url, notProxy |-> call.notProxy,
     decisionAtIssue |-> isGrayVersionSync(st)]

(***************************************************************************)
(* What a handler did: its return value, the storage it leaves, the calls  *)
(* that reached the platform's navigation operations, how often it read    *)
(* and wrote storage, read the navigation stack and called the network,    *)
(* and the values of its locals isGrayVersion (prev), isTargetUser (fresh), *)
(* currentPage (cur) and grayPages.                                        *)
(***************************************************************************)
Effect(st) ==
    [ret |-> FALSE, store |-> st, navs |-> <<>>,
     sreads |-> 0, swrites |-> 0, preads |-> 0, reqs |-> 0,
     prev |-> FALSE, fresh |-> FALSE, cur |-> NoPage, grayPages |-> <<>>]

(***************************************************************************)
(* Redirect Trigger.                                                       *)
(***************************************************************************)
\* '?' + Object.entries(query).map(v => `${v[0]}=${v[1]}`).join('&'), or ''
urlParamsOf(query) ==
    IF Len(query) > 0
    THEN <<"?">> \o join([i \in 1..Len(query) |-> query[i][1] \o <<"=">> \o query[i][2]], "&")
    ELSE <<>>

\* redirectToGrayPage, were it to persist the decision only past the early return
\* for a page that is not a gray page
redirectToGrayPage_PersistLate(grayPages, userInfo) ==
    IF ~isGrayVersionOpen THEN Effect(storage)
    ELSE
    LET rule          == getStorageSync(storage)
        isTargetUser  == checkIsGrayVersionTargetUser(rule, userInfo)
        isGrayVersion == isGrayVersionSync(storage)
        written       == setStorageSync(withDecision(rule, isTargetUser))
        page          == currentPage(pages)
        url           == IF startsWith(page.route, SUBPACKAGES_ROOT)
                         THEN slice(page.route, Len(SUBPACKAGES_ROOT) + 1) ELSE page.route
        target        == IF isTargetUser
                         THEN <<"/">> \o SUBPACKAGES_ROOT \o <<"/">> \o url \o urlParamsOf(enterQuery)
                         ELSE <<"/">> \o url \o urlParamsOf(enterQuery)
        call          == wxProxy(Call("redirectTo", target, TRUE), wrapDepth, pages, written)
        read          == [Effect(storage) EXCEPT
                            !.sreads = 2, !.preads = 1,
                            !.prev = isGrayVersion, !.fresh = isTargetUser, !.cur = page,
                            !.grayPages = grayPages]
    IN  IF ~some(grayPages, page.route) THEN read
        ELSE IF isTargetUser # isGrayVersion
        THEN [read EXCEPT !.store = written, !.swrites = 1, !.ret = TRUE,
                          !.navs = <<Delegated(call, written)>>]
        ELSE [read EXCEPT !.store = written, !.swrites = 1]

\* redirectToGrayPage, were it to issue the redirect before it persists the decision
redirectToGrayPage_NavigateFirst(grayPages, userInfo) ==
    IF ~isGrayVersionOpen THEN Effect(storage)
    ELSE
    LET rule          == getStorageSync(storage)
        isTargetUser  == checkIsGrayVersionTargetUser(rule, userInfo)
        isGrayVersion == isGrayVersionSync(storage)
        written       == setStorageSync(withDecision(rule, isTargetUser))
        page          == currentPage(pages)
        url           == IF startsWith(page.route, SUBPACKAGES_ROOT)
                         THEN slice(page.route, Len(SUBPACKAGES_ROOT) + 1) ELSE page.route
        target        == IF isTargetUser
                         THEN <<"/">> \o SUBPACKAGES_ROOT \o <<"/">> \o url \o urlParamsOf(enterQuery)
                         ELSE <<"/">> \o url \o urlParamsOf(enterQuery)
        call          == wxProxy(Call("redirectTo", target, TRUE), wrapDepth, pages, storage)
        persisted     == [Effect(written) EXCEPT
                            !.sreads = 2, !.swrites = 1, !.preads = 1,
                            !.prev = isGrayVersion, !.fresh = isTargetUser, !.cur = page,
                            !.grayPages = grayPages]
    IN  IF some(grayPages, page.route) /\ isTargetUser # isGrayVersion
        THEN [persisted EXCEPT !.ret = TRUE, !.navs = <<Delegated(call, storage)>>]
        ELSE persisted

redirectToGrayPage(grayPages, userInfo) ==
    IF ~isGrayVersionOpen THEN Effect(storage)
    ELSE
    LET rule          == getStorageSync(storage)
        isTargetUser  == checkIsGrayVersionTargetUser(rule, userInfo)
        isGrayVersion == isGrayVersionSync(storage)
        isRedirect    == isTargetUser # isGrayVersion
        written       == setStorageSync(withDecision(rule, isTargetUser))
        page          == currentPage(pages)
        route         == page.route
        isGrayPage    == some(grayPages, route)
        urlParams     == urlParamsOf(enterQuery)
        url           == IF startsWith(route, SUBPACKAGES_ROOT)
                         THEN slice(route, Len(SUBPACKAGES_ROOT) + 1) ELSE route
        target        == IF isTargetUser
                         THEN <<"/">> \o SUBPACKAGES_ROOT \o <<"/">> \o url \o urlParams
                         ELSE <<"/">> \o url \o urlParams
        call          == wxProxy(Call("redirectTo", target, TRUE), wrapDepth, pages, written)
        persisted     == [Effect(written) EXCEPT
                            !.sreads = 2, !.swrites = 1, !.preads = 1,
                            !.prev = isGrayVersion, !.fresh = isTargetUser, !.cur = page,
                            !.grayPages = grayPages]
    IN  IF ~isGrayPage THEN persisted
        ELSE IF isRedirect
        THEN [persisted EXCEPT
                !.ret = TRUE,
                !.navs = <<Delegated(call, written)>>,
                !.sreads = @ + call.sreads,
                !.preads = @ + call.preads]
        ELSE persisted

(***************************************************************************)
(* Identity change, synchronous variant.                                   *)
(***************************************************************************)
\* setGrayVersionStorageSync, were it to lack the check of the toggle
setGrayVersionStorageSync_NoToggle(userInfo) ==
    LET rule         == getStorageSync(storage)
        isTargetUser == checkIsGrayVersionTargetUser(rule, userInfo)
    IN  [Effect(setStorageSync(withDecision(rule, isTargetUser))) EXCEPT
            !.sreads = 1, !.swrites = 1,
            !.prev = isGrayVersionSync(storage), !.fresh = isTargetUser]

\* setGrayVersionStorageSync, were it to store the decision alone, without the rule
setGrayVersionStorageSync_DecisionOnly(userInfo) ==
    IF ~isGrayVersionOpen THEN Effect(storage)
    ELSE
    LET rule         == getStorageSync(storage)
        isTargetUser == checkIsGrayVersionTargetUser(rule, userInfo)
    IN  [Effect(setStorageSync(withDecision(EmptyObj, isTargetUser))) EXCEPT
            !.sreads = 1, !.swrites = 1,
            !.prev = isGrayVersionSync(storage), !.fresh = isTargetUser]

setGrayVersionStorageSync(userInfo) ==
    IF ~isGrayVersionOpen THEN Effect(storage)
    ELSE
    LET rule         == getStorageSync(storage)
        isTargetUser == checkIsGrayVersionTargetUser(rule, userInfo)
    IN  [Effect(setStorageSync(withDecision(rule, isTargetUser))) EXCEPT
            !.sreads = 1, !.swrites = 1,
            !.prev = isGrayVersionSync(storage), !.fresh = isTargetUser]

(***************************************************************************)
(* Rule Source and identity change, asynchronous variant.                  *)
(***************************************************************************)
\* what the request for /api/grayVersionRule can end with: a parsed body
\* {code, data}, or a throw of fetch() or res.json()
Responses ==
    [kind : {"body"}, code : {200}, data : BackendRules]
    \cup {[kind |-> "body", code |-> 500, data |-> EmptyObj],
          [kind |-> "throw", code |-> 0, data |-> EmptyObj]}

\* getGrayVersionRule, were it to lack the short-circuit for a test record
getGrayVersionRule_AlwaysFetch ==
    [phase |-> "fetching", rule |-> EmptyObj, outcome |-> "none", reqs |-> 1]

\* getGrayVersionRule() up to its await: the promise is settled with the test
\* rule, or waits for the request
getGrayVersionRule ==
    LET grayVersionRule == getStorageSync(storage)
    IN  IF Get(grayVersionRule, "isTest", FALSE)
        THEN [phase |-> "resolved", rule |-> grayVersionRule, outcome |-> "test", reqs |-> 0]
        ELSE [phase |-> "fetching", rule |-> EmptyObj, outcome |-> "none", reqs |-> 1]

\* getGrayVersionRuleDone, were a failed request to fall back on the cached record
getGrayVersionRuleDone_CachedOnFailure(resp) ==
    IF resp.kind = "body" /\ resp.code = 200
    THEN [rule |-> resp.data, store |-> setStorageSync(resp.data), swrites |-> 1, outcome |-> "ok"]
    ELSE [rule |-> getStorageSync(storage), store |-> storage, swrites |-> 0, outcome |-> "failed"]

\* getGrayVersionRule() from the end of the request on: the rule it resolves to
\* and the storage it leaves
getGrayVersionRuleDone(resp) ==
    IF resp.kind = "body" /\ resp.code = 200
    THEN [rule |-> resp.data, store |-> setStorageSync(resp.data), swrites |-> 1, outcome |-> "ok"]
    ELSE [rule |-> [isOpen |-> FALSE], store |-> storage, swrites |-> 0, outcome |-> "failed"]

\* The continuations of settled promises run in the order the promises were
\* settled: turn is the place of a suspended call in that order, 0 while its
\* promise is not settled.
nextTurn(list) == Cardinality({i \in 1..Len(list) : list[i].phase = "resolved"}) + 1

\* setGrayVersionStorage(userInfo) up to its await: the suspended call, if any
setGrayVersionStorage(userInfo) ==
    IF ~isGrayVersionOpen THEN <<>>
    ELSE LET source == getGrayVersionRule
         IN  <<[user |-> userInfo, phase |-> source.phase, rule |-> source.rule,
                outcome |-> source.outcome, stale |-> FALSE,
                turn |-> IF source.phase = "resolved" THEN nextTurn(pending) ELSE 0]>>

\* setGrayVersionStorageResume, were a call to give way to a decision already written
setGrayVersionStorageResume_FirstWriteWins(rule, userInfo) ==
    LET isTargetUser == checkIsGrayVersionTargetUser(rule, userInfo)
    IN  IF "isGrayVersion" \in DOMAIN getStorageSync(storage)
        THEN [Effect(storage) EXCEPT
                !.prev = isGrayVersionSync(storage), !.fresh = isTargetUser]
        ELSE [Effect(setStorageSync(withDecision(rule, isTargetUser))) EXCEPT
                !.swrites = 1, !.prev = isGrayVersionSync(storage), !.fresh = isTargetUser]

\* setGrayVersionStorageResume, were it to add the decision to the record stored at
\* that moment instead of the rule it awaited
setGrayVersionStorageResume_IntoStored(rule, userInfo) ==
    LET isTargetUser == checkIsGrayVersionTargetUser(rule, userInfo)
    IN  [Effect(setStorageSync(withDecision(getStorageSync(storage), isTargetUser))) EXCEPT
            !.swrites = 1, !.prev = isGrayVersionSync(storage), !.fresh = isTargetUser]

\* setGrayVersionStorage(userInfo) after its await, with the rule awaited
setGrayVersionStorageResume(rule, userInfo) ==
    LET isTargetUser == checkIsGrayVersionTargetUser(rule, userInfo)
    IN  [Effect(setStorageSync(withDecision(rule, isTargetUser))) EXCEPT
            !.swrites = 1, !.prev = isGrayVersionSync(storage), !.fresh = isTargetUser]

(***************************************************************************)
(* Enabling.                                                               *)
(***************************************************************************)
\* enableGrayVersion, were it to lack wx.removeStorageSync('GRAY_VERSION')
enableGrayVersion_KeepRecord(grayRule) ==
    IF ~Get(grayRule, "isOpen", FALSE)
    THEN [open |-> FALSE, store |-> storage, wraps |-> 0, swrites |-> 0]
    ELSE IF Get(grayRule, "isTest", FALSE)
    THEN [open |-> TRUE, store |-> setStorageSync(grayRule), wraps |-> 1, swrites |-> 1]
    ELSE [open |-> TRUE, store |-> storage, wraps |-> 1, swrites |-> 0]

enableGrayVersion(grayRule) ==
    LET removed == removeStorageSync
    IN  IF ~Get(grayRule, "isOpen", FALSE)
        THEN [open |-> FALSE, store |-> removed, wraps |-> 0, swrites |-> 1]
        ELSE IF Get(grayRule, "isTest", FALSE)
        THEN [open |-> TRUE, store |-> setStorageSync(grayRule), wraps |-> 1, swrites |-> 2]
        ELSE [open |-> TRUE, store |-> removed, wraps |-> 1, swrites |-> 1]

(***************************************************************************)
(* The log of the last call or completion.                                 *)
(***************************************************************************)
NoCall == [api |-> "none", url |-> <<>>, notProxy |-> FALSE]

Log(op, userInfo, given, eff) ==
    [op |-> op, user |-> userInfo, given |-> given, ret |-> eff.ret, navs |-> eff.navs,
     sreads |-> eff.sreads, swrites |-> eff.swrites, preads |-> eff.preads,
     reqs |-> eff.reqs, prev |-> eff.prev, fresh |-> eff.fresh, cur |-> eff.cur,
     grayPages |-> eff.grayPages]

\* a decision was written by a call that started after the last enableGrayVersion
wroteFresh == IF sinceEnable = "never" THEN "never" ELSE "fresh"

\* a decision was written by a call that was suspended across enableGrayVersion
wroteStale == IF sinceEnable = "none" THEN "stale" ELSE sinceEnable

removeAt(list, i) == SubSeq(list, 1, i - 1) \o SubSeq(list, i + 1, Len(list))

\* the suspended calls once call i has run to its end: the calls settled after it move up
resumed(list, i) ==
    LET rest == removeAt(list, i)
    IN  [j \in 1..Len(rest) |->
            [rest[j] EXCEPT !.turn = IF @ > 0 THEN @ - 1 ELSE 0]]

(***************************************************************************)
(* Initial state: the module is loaded, the entry page is shown, storage   *)
(* holds what an earlier run of the application left.                      *)
(***************************************************************************)
LeftInStorage == {<<>>, <<withDecision(RuleArea, TRUE)>>}

Init ==
    /\ isGrayVersionOpen = FALSE
    /\ storage \in LeftInStorage
    /\ wrapDepth = 0
    /\ enterQuery = QueryId
    /\ \E route \in {PageA, PageN} : pages = <<[route |-> route, query |-> enterQuery]>>
    /\ pending = <<>>
    /\ sinceEnable = "never"
    /\ last = Log("load", EmptyObj, NoCall, Effect(storage))

(***************************************************************************)
(* Actions.                                                                *)
(***************************************************************************)
EnableGrayVersion(grayRule) ==
    LET e == enableGrayVersion(grayRule)
    IN  /\ wrapDepth + e.wraps <= MaxWrap
        /\ isGrayVersionOpen' = e.open
        /\ storage' = e.store
        /\ wrapDepth' = wrapDepth + e.wraps
        /\ pending' = [i \in 1..Len(pending) |-> [pending[i] EXCEPT !.stale = TRUE]]
        /\ sinceEnable' = "none"
        /\ last' = Log("enable", EmptyObj, NoCall, [Effect(e.store) EXCEPT !.swrites = e.swrites])
        /\ UNCHANGED <<pages, enterQuery>>

RedirectToGrayPage(grayPages, userInfo) ==
    LET eff == redirectToGrayPage(grayPages, userInfo)
    IN  /\ storage' = eff.store
        /\ pages' = afterNavs(pages, eff.navs)
        /\ sinceEnable' = IF isGrayVersionOpen THEN wroteFresh ELSE sinceEnable
        /\ last' = Log("redirect", userInfo, NoCall, eff)
        /\ UNCHANGED <<isGrayVersionOpen, wrapDepth, enterQuery, pending>>

SetGrayVersionStorageSync(userInfo) ==
    LET eff == setGrayVersionStorageSync(userInfo)
    IN  /\ storage' = eff.store
        /\ sinceEnable' = IF isGrayVersionOpen THEN wroteFresh ELSE sinceEnable
        /\ last' = Log("setSync", userInfo, NoCall, eff)
        /\ UNCHANGED <<isGrayVersionOpen, wrapDepth, pages, enterQuery, pending>>

SetGrayVersionStorage(userInfo) ==
    LET started == setGrayVersionStorage(userInfo)
    IN  /\ Len(pending) + Len(started) <= MaxPending
        /\ pending' = pending \o started
        /\ last' = Log("setAsync", userInfo, NoCall,
                       [Effect(storage) EXCEPT
                          !.sreads = Len(started),
                          !.reqs = IF Len(started) = 0 THEN 0 ELSE getGrayVersionRule.reqs])
        /\ UNCHANGED <<isGrayVersionOpen, storage, wrapDepth, pages, enterQuery, sinceEnable>>

FetchDone(i, resp) ==
    /\ i \in 1..Len(pending)
    /\ pending[i].phase = "fetching"
    /\ LET done == getGrayVersionRuleDone(resp)
       IN  /\ storage' = done.store
           /\ pending' = [pending EXCEPT ![i].phase = "resolved",
                                         ![i].rule = done.rule,
                                         ![i].outcome = done.outcome,
                                         ![i].turn = nextTurn(pending)]
           /\ last' = Log("fetchDone", pending[i].user, NoCall,
                          [Effect(done.store) EXCEPT !.swrites = done.swrites])
    /\ UNCHANGED <<isGrayVersionOpen, wrapDepth, pages, enterQuery, sinceEnable>>

ResumeSetGrayVersionStorage(i) ==
    /\ i \in 1..Len(pending)
    /\ pending[i].phase = "resolved"
    /\ pending[i].turn = 1
    /\ LET eff == setGrayVersionStorageResume(pending[i].rule, pending[i].user)
       IN  /\ storage' = eff.store
           /\ last' = Log("resume", pending[i].user, NoCall, eff)
    /\ pending' = resumed(pending, i)
    /\ sinceEnable' = IF pending[i].stale THEN wroteStale ELSE wroteFresh
    /\ UNCHANGED <<isGrayVersionOpen, wrapDepth, pages, enterQuery>>

Navigate(given) ==
    LET call == wxProxy(Call(given.api, given.url, given.notProxy), wrapDepth, pages, storage)
        nav  == Delegated(call, storage)
    IN  /\ pages' = afterNavs(pages, <<nav>>)
        /\ last' = Log("navigate", EmptyObj, given,
                       [Effect(storage) EXCEPT
                          !.navs = <<nav>>, !.sreads = call.sreads, !.preads = call.preads,
                          !.cur = currentPage(pages)])
        /\ UNCHANGED <<isGrayVersionOpen, storage, wrapDepth, enterQuery, pending, sinceEnable>>

NavigateBack ==
    /\ Len(pages) > 1
    /\ pages' = pop(pages)
    /\ last' = Log("back", EmptyObj, NoCall, Effect(storage))
    /\ UNCHANGED <<isGrayVersionOpen, storage, wrapDepth, enterQuery, pending, sinceEnable>>

(***************************************************************************)
(* Specifications.  The handlers that read the navigation stack (redirect, *)
(* navigation) and the ones suspended at a network request (asynchronous   *)
(* identity change) meet only in storage, so each is explored with the     *)
(* synchronous handlers, which write every kind of record storage holds.   *)
(***************************************************************************)
\* enabling, synchronous identity change, Redirect Trigger and navigation
Next ==
    \/ \E grayRule \in EnableRules : EnableGrayVersion(grayRule)
    \/ \E grayPages \in GrayPagesArgs, userInfo \in Users : RedirectToGrayPage(grayPages, userInfo)
    \/ \E userInfo \in Users : SetGrayVersionStorageSync(userInfo)
    \/ \E given \in NavCalls : Navigate(given)
    \/ NavigateBack

Spec == Init /\ [][Next]_vars

\* enabling, both identity-change variants and the Redirect Trigger, on one page
NextAsync ==
    \/ \E grayRule \in EnableRules : EnableGrayVersion(grayRule)
    \/ \E userInfo \in Users : RedirectToGrayPage(GRAY_PAGES, userInfo)
    \/ \E userInfo \in Users : SetGrayVersionStorageSync(userInfo)
    \/ \E userInfo \in Users : SetGrayVersionStorage(userInfo)
    \/ \E i \in 1..MaxPending, resp \in Responses : FetchDone(i, resp)
    \/ \E i \in 1..MaxPending : ResumeSetGrayVersionStorage(i)

SpecAsync == Init /\ [][NextAsync]_vars

(***************************************************************************)
(* Vocabulary of the claims.                                               *)
(***************************************************************************)
CanaryPrefix == SUBPACKAGES_ROOT \o <<"/">>

\* stripCanaryPrefix / withCanaryPrefix of the Path Normalizer's contract
stripCanaryPrefix(path) ==
    IF startsWith(path, CanaryPrefix) THEN slice(path, Len(CanaryPrefix)) ELSE path
withCanaryPrefix(path) == CanaryPrefix \o path

\* a page path is canary-eligible: its prefix-stripped path starts with a listed prefix
Eligible(path, pageSet) ==
    \E i \in 1..Len(pageSet) : startsWith(stripCanaryPrefix(path), pageSet[i])

\* a page route, and the url handed to the platform, belong to the canary bundle
RouteInCanary(route) == startsWith(route, CanaryPrefix)
UrlInCanary(url) == startsWith(url, <<"/">> \o CanaryPrefix)

\* the Redirect Trigger ran with the toggle on
Triggered(l) == l.op = "redirect" /\ isGrayVersionOpen

(***************************************************************************)
(* C1: with the toggle on, previous decision false, fresh evaluation true  *)
(* and an eligible current page, one call of the Redirect Trigger issues   *)
(* exactly one replace-navigation to the current page's path with the      *)
(* canary prefix added and the page's query string appended; a second call *)
(* with the same arguments right after it issues no navigation.            *)
(***************************************************************************)
C1_Case(l) ==
    /\ Triggered(l)
    /\ ~l.prev
    /\ l.fresh
    /\ Eligible(l.cur.route, l.grayPages)

C1_OneCanaryRedirect(l) ==
    /\ Len(l.navs) = 1
    /\ l.navs[1].api = "redirectTo"
    /\ l.navs[1].url = <<"/">> \o withCanaryPrefix(stripCanaryPrefix(l.cur.route))
                              \o urlParamsOf(l.cur.query)

\* the call that just returned was in the case: it issued the one redirect
C1_FirstCall == C1_Case(last') => C1_OneCanaryRedirect(last')

\* the call before was in the case and this one repeats it: no navigation
C1_SecondCall ==
    ( /\ C1_Case(last)
      /\ last'.op = "redirect"
      /\ last'.user = last.user
      /\ last'.grayPages = last.grayPages )
    => last'.navs = <<>>

\* C1: every Redirect Trigger call in the case issues the one canary redirect with the
\* page's query, and the same call repeated right after it issues no navigation
C1_RedirectOnceThenNone == [][C1_FirstCall /\ C1_SecondCall]_vars

(***************************************************************************)
(* C2: with the toggle on, previous decision true, fresh evaluation false  *)
(* and the current page an eligible page shown from the canary bundle, the *)
(* Redirect Trigger issues exactly one opt-out-marked replace-navigation   *)
(* to the same page without the canary prefix and returns true.            *)
(***************************************************************************)
C2_RedirectOutOfCanary ==
    ( /\ Triggered(last)
      /\ last.prev
      /\ ~last.fresh
      /\ RouteInCanary(last.cur.route)
      /\ Eligible(last.cur.route, last.grayPages) )
    => /\ last.ret
       /\ Len(last.navs) = 1
       /\ last.navs[1].api = "redirectTo"
       /\ last.navs[1].notProxy
       /\ urlPath(last.navs[1].url) = <<"/">> \o stripCanaryPrefix(last.cur.route)

(***************************************************************************)
(* C3: the Redirect Trigger never issues a replace-navigation whose target *)
(* bundle is the bundle the current page is already shown from.            *)
(***************************************************************************)
C3_NoRedundantRedirect ==
    last.op = "redirect" =>
        \A i \in 1..Len(last.navs) :
            UrlInCanary(last.navs[i].url) # RouteInCanary(last.cur.route)

(***************************************************************************)
(* C4: for every navigation call without the opt-out marker, the path      *)
(* delegated to the platform carries the canary prefix if and only if the  *)
(* resolved, prefix-stripped target is canary-eligible and the persisted   *)
(* decision read at the call is gray; otherwise it is the target           *)
(* unprefixed.                                                             *)
(***************************************************************************)
Intercepted(l) == l.op = "navigate" /\ ~l.given.notProxy /\ wrapDepth >= 1

C5_OptOutUnchanged ==
    /\ (last.op = "navigate" /\ last.given.notProxy) =>
          /\ Len(last.navs) = 1
          /\ last.navs[1].api = last.given.api
          /\ last.navs[1].url = last.given.url
          /\ last.navs[1].notProxy
          /\ last.sreads = 0
          /\ last.preads = 0
    /\ (last.op = "redirect" /\ Len(last.navs) > 0) =>
          /\ last.navs[1].notProxy
          /\ last.navs[1].url =
                <<"/">> \o (IF last.fresh THEN CanaryPrefix ELSE <<>>)
                        \o stripCanaryPrefix(last.cur.route) \o urlParamsOf(enterQuery)
          \* the reads of the trigger itself: none is added by a wrapper
          /\ last.sreads = 2
          /\ last.preads = 1

\* a relative url passed the wrappers with the marker and reached the platform as given
C5_Witness ==
    /\ last.op = "navigate"
    /\ last.given.notProxy
    /\ wrapDepth >= 1
    /\ ~startsWith(last.given.url, <<"/">>)
    /\ last.navs[1].url = last.given.url

(***************************************************************************)
(* C6: while the toggle is off, the Redirect Trigger returns false and     *)
(* both identity-change variants return, each without a read or write of   *)
(* storage, a network request or a navigation; the persisted record, the   *)
(* navigation stack and the suspended calls are as before.                 *)
(***************************************************************************)
IdentityOps == {"redirect", "setSync", "setAsync"}

C6_Step ==
    (~isGrayVersionOpen /\ last'.op \in IdentityOps) =>
        /\ storage' = storage
        /\ pages' = pages
        /\ pending' = pending
        /\ ~last'.ret
        /\ last'.navs = <<>>
        /\ last'.sreads = 0
        /\ last'.swrites = 0
        /\ last'.preads = 0
        /\ last'.reqs = 0

\* C6: with the toggle off every identity-change step is a no-op returning false
C6_ToggleOffNoEffect == [][C6_Step]_vars

\* an identity change ran with the toggle off over a record that holds a gray decision
C6_Witness ==
    /\ ~isGrayVersionOpen
    /\ last.op \in IdentityOps
    /\ isGrayVersionSync(storage)

(***************************************************************************)
(* C7: with the toggle on, after every call of the Redirect Trigger,       *)
(* redirect or not, eligible page or not, isGrayVersionSync() is the Rule  *)
(* Evaluator's verdict for the rule the call read and its user attributes. *)
(***************************************************************************)
C7_Step ==
    (isGrayVersionOpen /\ last'.op = "redirect") =>
        isGrayVersionSync(storage')
            = checkIsGrayVersionTargetUser(getStorageSync(storage), last'.user)

\* C7: every Redirect Trigger step with the toggle on leaves the evaluator's verdict stored
C7_DecisionAlwaysPersisted == [][C7_Step]_vars

\* a gray decision replaced a non-gray one on a page that is not eligible: no redirect
C7_Witness ==
    /\ Triggered(last)
    /\ ~last.ret
    /\ ~Eligible(last.cur.route, last.grayPages)
    /\ ~last.prev
    /\ isGrayVersionSync(storage)

(***************************************************************************)
(* C8: within one call of the Redirect Trigger the new decision is in      *)
(* storage before the redirect is issued: a navigation made from that      *)
(* moment on reads the fresh decision, not the previous one.               *)
(***************************************************************************)
C8_PersistBeforeRedirect ==
    (last.op = "redirect" /\ Len(last.navs) > 0) =>
        /\ last.navs[1].decisionAtIssue = last.fresh
        /\ last.navs[1].decisionAtIssue # last.prev
        /\ last.navs[1].decisionAtIssue = isGrayVersionSync(storage)

\* a redirect into the canary bundle was issued with the gray decision already stored
C8_Witness ==
    /\ last.op = "redirect"
    /\ last.ret
    /\ Len(last.navs) = 1
    /\ last.navs[1].decisionAtIssue
    /\ ~last.prev

(***************************************************************************)
(* C9: after a call of enableGrayVersion, in any interleaving, pending      *)
(* asynchronous identity changes included, isGrayVersionSync() is false    *)
(* until a call started after the enable call has written a decision.      *)
(***************************************************************************)
C9_NoDecisionUntilFreshWrite ==
    sinceEnable \in {"none", "stale"} => ~isGrayVersionSync(storage)

\* what enableGrayVersion does establish: no gray decision is stored until some call,
\* started before or after the enable call, has written one
C9_NoDecisionUntilWrite ==
    sinceEnable = "none" => ~isGrayVersionSync(storage)

\* a call suspended across the enable call has had its rule fetched and stored,
\* and no decision is stored yet
C9_Witness ==
    /\ sinceEnable = "none"
    /\ Len(storage) = 1
    /\ \E i \in 1..Len(pending) : pending[i].stale /\ pending[i].outcome = "ok"
    /\ ~isGrayVersionSync(storage)

(***************************************************************************)
(* C10: a request that ends with a non-success status or with a throw      *)
(* makes the Rule Source resolve to {isOpen: false}, and the asynchronous  *)
(* identity change that awaited it then persists the decision false with   *)
(* that rule, whatever was persisted before and whoever the user is.       *)
(***************************************************************************)
RuleOff == [isOpen |-> FALSE]

\* the request of suspended call i just ended in a failure
C10_Failed(i) ==
    /\ last'.op = "fetchDone"
    /\ i <= Len(pending')
    /\ pending[i].phase = "fetching"
    /\ pending'[i].outcome = "failed"

\* suspended call i, whose request had failed, just resumed
C10_Resumed(i) ==
    /\ last'.op = "resume"
    /\ pending[i].outcome = "failed"
    /\ pending[i].turn = 1

C10_Step ==
    \A i \in 1..Len(pending) :
        /\ C10_Failed(i) =>
              /\ pending'[i].phase = "resolved"
              /\ pending'[i].rule = RuleOff
        /\ C10_Resumed(i) =>
              /\ getStorageSync(storage') = withDecision(RuleOff, FALSE)
              /\ ~isGrayVersionSync(storage')

\* C10: every failed request resolves to {isOpen: false} and its resume persists false
C10_FailureDegradesToOff == [][C10_Step]_vars

\* a gray decision of a matching user was replaced by false after a failed request
C10_Witness ==
    /\ last.op = "resume"
    /\ last.user = UserArea
    /\ last.prev
    /\ getStorageSync(storage) = withDecision(RuleOff, FALSE)

(***************************************************************************)
(* C11: when the persisted record carries isTest = true the Rule Source    *)
(* returns it unchanged without a network request; so once                 *)
(* enableGrayVersion ran with an open test rule, no identity-change call,  *)
(* synchronous or asynchronous, and no Redirect Trigger call issues a      *)
(* request or removes isTest or a rule field from the persisted record.    *)
(***************************************************************************)
\* the persisted record holds every field of the test rule
TestRecord(st) ==
    /\ Len(st) = 1
    /\ \A f \in DOMAIN RuleTest : f \in DOMAIN st[1] /\ st[1][f] = RuleTest[f]

\* the feature runs on the test rule and no request of an earlier rule is in flight
TestMode ==
    /\ isGrayVersionOpen
    /\ TestRecord(storage)
    /\ \A i \in 1..Len(pending) : pending[i].outcome = "test"

\* the Rule Source, asked with a test record persisted, resolves to that record
C11_ShortCircuit ==
    (isGrayVersionOpen /\ TestRecord(storage) /\ last'.op = "setAsync") =>
        /\ last'.reqs = 0
        /\ storage' = storage
        /\ Len(pending') = Len(pending) + 1
        /\ pending'[Len(pending')].phase = "resolved"
        /\ pending'[Len(pending')].rule = getStorageSync(storage)

\* enabling with an open test rule starts the test mode, and no call ends it
C11_Stays ==
    /\ (last'.op = "enable" /\ TestRecord(storage')
          /\ \A i \in 1..Len(pending) : pending[i].outcome = "test") => TestMode'
    /\ (TestMode /\ last'.op \in {"redirect", "setSync", "setAsync", "fetchDone", "resume"}) =>
          /\ TestMode'
          /\ last'.reqs = 0

\* C11: the test rule short-circuits the request and survives every later call
C11_TestRuleShortCircuits == [][C11_ShortCircuit /\ C11_Stays]_vars

\* an asynchronous identity change wrote a gray decision computed from the test rule
C11_Witness ==
    /\ TestMode
    /\ last.op = "resume"
    /\ last.user = UserArea
    /\ isGrayVersionSync(storage)

(***************************************************************************)
(* C12: when asynchronous identity changes overlap, none is cancelled or   *)
(* superseded; each writes when its request has completed, and the         *)
(* persisted decision is the one of the call whose request completed       *)
(* last, computed from that call's own user, also when it started first.   *)
(***************************************************************************)
\* starting a call leaves the calls already suspended as they are
C12_Start ==
    last'.op = "setAsync" =>
        /\ Len(pending') >= Len(pending)
        /\ SubSeq(pending', 1, Len(pending)) = pending

\* the completion of one request settles that call last and leaves the others alone
C12_Complete ==
    last'.op = "fetchDone" =>
        /\ Len(pending') = Len(pending)
        /\ \E i \in 1..Len(pending) :
              /\ pending[i].phase = "fetching"
              /\ pending'[i].phase = "resolved"
              /\ \A j \in 1..Len(pending) :
                    IF j = i THEN pending'[j].turn > pending[j].turn
                    ELSE /\ pending'[j] = pending[j]
                         /\ pending'[i].turn > pending[j].turn

\* the call that resumes is the one settled first; it writes the verdict for its own
\* rule and user over whatever is stored, and the other calls stay suspended
C12_Write ==
    last'.op = "resume" =>
        \A r \in 1..Len(pending) :
            pending[r].turn = 1 =>
                /\ storage' = setStorageSync(withDecision(pending[r].rule,
                                  checkIsGrayVersionTargetUser(pending[r].rule, pending[r].user)))
                /\ isGrayVersionSync(storage')
                      = checkIsGrayVersionTargetUser(pending[r].rule, pending[r].user)
                /\ Len(pending') = Len(pending) - 1
                /\ \A j \in 1..Len(pending') :
                      LET k == IF j < r THEN j ELSE j + 1
                      IN  /\ pending'[j].user = pending[k].user
                          /\ pending'[j].phase = pending[k].phase
                          /\ pending'[j].rule = pending[k].rule
                          /\ pending[k].turn > 1 => pending'[j].turn = pending[k].turn - 1

\* C12: overlapping asynchronous identity changes all complete, the last to complete wins
C12_LastCompletedWins == [][C12_Start /\ C12_Complete /\ C12_Write]_vars

\* two calls overlap and the request of the one started second completed first
C12_Witness ==
    /\ Len(pending) = 2
    /\ pending[1].phase = "fetching"
    /\ pending[2].outcome = "ok"
    /\ pending[2].turn = 1
    /\ pending[1].user # pending[2].user
    /\ ~pending[1].stale

(***************************************************************************)
(* The Rule Evaluator on its own: checkIsGrayVersionTargetUser applied to  *)
(* every rule and user of the sets below.  A field is <<>> when the object *)
(* lacks it and <<value>> when it has it.                                  *)
(***************************************************************************)
\* the object with the fields that the choice gives a value
objectOf(choice) ==
    [f \in {g \in DOMAIN choice : choice[g] # <<>>} |-> choice[f][1]]

EvalRules ==
    {objectOf(c) : c \in
        [isOpen      : {<<>>, <<TRUE>>, <<FALSE>>},
         all         : {<<>>, <<TRUE>>, <<FALSE>>},
         areaCode    : {<<>>, << <<>> >>, << <<SentinelAll>> >>,
                        << << <<"1","1">>, SentinelAll >> >>, << << <<"1","1">> >> >>},
         phonePrefix : {<<>>, << <<>> >>, << <<"1","3","8">> >>},
         whiteList   : {<<>>, << <<>> >>, << << <<"1","3","9">> >> >>}]}

EvalUsers ==
    {objectOf(c) : c \in
        [areaCode    : {<<>>, << <<"1","1","0">> >>, << <<"3","1","0">> >>, << SentinelAll >>},
         mobilePhone : {<<>>, << <<"1","3","8","0">> >>, << <<"1","3","9">> >>}]}

\* nothing of the module has run: no record, no page, no wrapper, no suspended call
Unloaded ==
    /\ isGrayVersionOpen = FALSE
    /\ storage = <<>>
    /\ wrapDepth = 0
    /\ pages = <<>>
    /\ enterQuery = NoQuery
    /\ pending = <<>>
    /\ sinceEnable = "never"

InitEval ==
    /\ Unloaded
    /\ \E rule \in EvalRules, userInfo \in EvalUsers :
          last = [op |-> "arguments", rule |-> rule, user |-> userInfo]

CheckIsGrayVersionTargetUser ==
    /\ last.op = "arguments"
    /\ last' = [op |-> "checkIsGrayVersionTargetUser", rule |-> last.rule, user |-> last.user,
                ret |-> checkIsGrayVersionTargetUser(last.rule, last.user)]
    /\ UNCHANGED <<isGrayVersionOpen, storage, wrapDepth, pages, enterQuery, pending, sinceEnable>>

NextEval == CheckIsGrayVersionTargetUser

SpecEval == InitEval /\ [][NextEval]_vars

(***************************************************************************)
(* C13: for every rule and user, absent fields taking their defaults, the  *)
(* Rule Evaluator returns the verdict of the seven-step first-match order: *)
(* false when isOpen is false whatever else the rule holds; else true for  *)
(* all; else true when areaCode's first element is the sentinel "all";     *)
(* else true when the user's areaCode starts with a listed code; else true *)
(* when phonePrefix is non-empty and starts the user's mobilePhone; else   *)
(* true when the mobilePhone is in whiteList; else false.                  *)
(***************************************************************************)
\* a field of the rule or of the user with the default of the data model
fieldOr(obj, f, default) == IF f \in DOMAIN obj THEN obj[f] ELSE default

\* the step of the order, 1 to 7, that is the first to match
firstMatch(rule, user) ==
    LET codes  == fieldOr(rule, "areaCode", <<>>)
        prefix == fieldOr(rule, "phonePrefix", <<>>)
        white  == fieldOr(rule, "whiteList", <<>>)
        area   == fieldOr(user, "areaCode", <<>>)
        phone  == fieldOr(user, "mobilePhone", <<>>)
    IN  CASE ~fieldOr(rule, "isOpen", FALSE) -> 1
          [] fieldOr(rule, "all", FALSE) -> 2
          [] codes # <<>> /\ Head(codes) = SentinelAll -> 3
          [] \E i \in DOMAIN codes :
                Len(codes[i]) <= Len(area) /\ \A k \in DOMAIN codes[i] : area[k] = codes[i][k] -> 4
          [] prefix # <<>> /\ Len(prefix) <= Len(phone)
                /\ \A k \in DOMAIN prefix : phone[k] = prefix[k] -> 5
          [] phone \in {white[i] : i \in DOMAIN white} -> 6
          [] OTHER -> 7

C13_SevenStepOrder ==
    last.op = "checkIsGrayVersionTargetUser" =>
        /\ last.ret = (firstMatch(last.rule, last.user) \in 2..6)
        /\ ~fieldOr(last.rule, "isOpen", FALSE) => ~last.ret
        /\ storage = <<>> /\ pages = <<>> /\ pending = <<>>

\* an open rule whose sentinel is not the first element was evaluated to false for a
\* user whom none of its lists names
C13_Witness ==
    /\ last.op = "checkIsGrayVersionTargetUser"
    /\ ~last.ret
    /\ firstMatch(last.rule, last.user) = 7
    /\ "areaCode" \in DOMAIN last.rule
    /\ includes(last.rule.areaCode, SentinelAll)
    /\ "mobilePhone" \in DOMAIN last.user

(***************************************************************************)
(* The Path Normalizer on its own: fixRelativeUrl applied to every current *)
(* path and target of the sets below.                                      *)
(***************************************************************************)
PathPagesAIndex == <<"p","a","g","e","s","/","a","/","i","n","d","e","x">>

ResolveBases ==
    {PathPagesAIndex, PageA, <<"a">>, <<>>, GrayPageA,
     <<"p","/","a","/","b","/","c">>}

ResolveTargets ==
    {<<".",".","/","b","/","i","n","d","e","x">>,
     <<"/","p","a","g","e","s","/","c","/","i","n","d","e","x">>,
     <<".","/","b">>,
     <<"b">>,
     <<".",".">>,
     <<".">>,
     <<>>,
     <<".",".","/",".",".","/",".",".","/","x">>,
     <<".",".","/",".",".","/",".",".","/",".",".","/",".",".">>,
     <<"b","/",".","/","c","/",".",".","/","d">>,
     <<"b","/">>,
     <<"b","/","/","c">>,
     <<"/","/","b">>,
     <<"/">>,
     <<".",".","/","b","?","x","=","1">>,
     <<".",".",".","/","b">>}

InitResolve ==
    /\ Unloaded
    /\ \E base \in ResolveBases, relative \in ResolveTargets :
          last = [op |-> "arguments", base |-> base, relative |-> relative]

FixRelativeUrl ==
    /\ last.op = "arguments"
    /\ last' = [op |-> "fixRelativeUrl", base |-> last.base, relative |-> last.relative,
                ret |-> fixRelativeUrl(last.base, last.relative)]
    /\ UNCHANGED <<isGrayVersionOpen, storage, wrapDepth, pages, enterQuery, pending, sinceEnable>>

NextResolve == FixRelativeUrl

SpecResolve == InitResolve /\ [][NextResolve]_vars

(***************************************************************************)
(* C14: fixRelativeUrl returns the result of relative-path resolution: the *)
(* current path's last segment is dropped, then each segment of the target *)
(* is applied in order ('.' is a no-op, '..' pops one segment, anything    *)
(* else pushes); a target that starts with the separator is returned with  *)
(* only that leading separator removed; popping past the root does not     *)
(* fail.  resolve("pages/a/index", "../b/index") = "pages/b/index" and     *)
(* resolve("pages/a/index", "/pages/c/index") = "pages/c/index".           *)
(***************************************************************************)
\* the segments of a slash-delimited path, cut at the positions of its separators
segmentsOf(path) ==
    LET cuts     == {i \in 1..Len(path) : path[i] = "/"}
        n        == Cardinality(cuts)
        cut(k)   == IF k = 0 THEN 0
                    ELSE IF k = n + 1 THEN Len(path) + 1
                    ELSE CHOOSE c \in cuts : Cardinality({d \in cuts : d < c}) = k - 1
    IN  [k \in 1..(n + 1) |-> SubSeq(path, cut(k - 1) + 1, cut(k) - 1)]

\* the stack after the segments were applied to it in order
RECURSIVE resolved(_, _)
resolved(stack, segments) ==
    IF segments = <<>> THEN stack
    ELSE LET before  == resolved(stack, SubSeq(segments, 1, Len(segments) - 1))
             segment == segments[Len(segments)]
         IN  CASE segment = <<".">> -> before
               [] segment = <<".", ".">> ->
                     IF before = <<>> THEN <<>> ELSE SubSeq(before, 1, Len(before) - 1)
               [] OTHER -> before \o <<segment>>

\* the path of a stack of segments
RECURSIVE pathOf(_)
pathOf(stack) ==
    IF stack = <<>> THEN <<>>
    ELSE IF Len(stack) = 1 THEN stack[1]
    ELSE pathOf(SubSeq(stack, 1, Len(stack) - 1)) \o <<"/">> \o stack[Len(stack)]

resolve(currentPath, target) ==
    IF target # <<>> /\ Head(target) = "/" THEN Tail(target)
    ELSE LET current == segmentsOf(currentPath)
         IN  pathOf(resolved(SubSeq(current, 1, Len(current) - 1), segmentsOf(target)))

C14_RelativePathResolution ==
    last.op = "fixRelativeUrl" =>
        /\ last.ret = resolve(last.base, last.relative)
        /\ (last.base = PathPagesAIndex
              /\ last.relative = <<".",".","/","b","/","i","n","d","e","x">>)
           => last.ret = <<"p","a","g","e","s","/","b","/","i","n","d","e","x">>
        /\ (last.base = PathPagesAIndex
              /\ last.relative = <<"/","p","a","g","e","s","/","c","/","i","n","d","e","x">>)
           => last.ret = <<"p","a","g","e","s","/","c","/","i","n","d","e","x">>

\* a target with more '..' than the current path has segments was resolved to its last part
C14_Witness ==
    /\ last.op = "fixRelativeUrl"
    /\ last.base = PathPagesAIndex
    /\ last.relative = <<".",".","/",".",".","/",".",".","/","x">>
    /\ last.ret = <<"x">>

(***************************************************************************)
(* The gray prefix on its own: the url built for a gray page and the       *)
(* removal of the prefix from the url of a navigation call.                *)
(***************************************************************************)
\* '/' + SUBPACKAGES_ROOT + '/' + url
grayUrl(url) == <<"/">> \o SUBPACKAGES_ROOT \o <<"/">> \o url

\* withoutGrayPrefix, were it to test for the sub-package root without its separator
withoutGrayPrefix_NoSeparator(source, url) ==
    LET fixed == fixRelativeUrl(source, url)
    IN  IF startsWith(fixed, SUBPACKAGES_ROOT)
        THEN slice(fixed, Len(SUBPACKAGES_ROOT) + 1) ELSE fixed

\* the url of a navigation call once newWxRouteApi has resolved it against the
\* current page and removed the gray prefix
withoutGrayPrefix(source, url) ==
    LET fixed      == fixRelativeUrl(source, url)
        grayPrefix == SUBPACKAGES_ROOT \o <<"/">>
    IN  IF startsWith(fixed, grayPrefix) THEN slice(fixed, Len(grayPrefix)) ELSE fixed

PrefixPaths ==
    {PageA, PageN, GrayPageA, PathPagesAIndex, <<>>, <<"a">>, <<"g">>,
     SUBPACKAGES_ROOT,
     SUBPACKAGES_ROOT \o <<"X","/","a">>,
     <<"g","r","a","y","V","e","r","s","i","o","/","n">>,
     <<"p","/">> \o SUBPACKAGES_ROOT \o <<"/","a">>,
     PageA \o <<"?","i","d","=","1">>,
     <<"/">> \o PageA}

PrefixSources == {PageA, PageN, GrayPageA, PathPagesAIndex, <<"a">>}

InitPrefix ==
    /\ Unloaded
    /\ \E path \in PrefixPaths, source \in PrefixSources :
          last = [op |-> "arguments", path |-> path, source |-> source]

\* the path is given the gray prefix and handed to the interceptor, and it is
\* handed to the interceptor as it is
AddThenStrip ==
    /\ last.op = "arguments"
    /\ LET stack == <<[route |-> last.source, query |-> NoQuery]>>
           added == grayUrl(last.path)
       IN  last' = [op |-> "addThenStrip", path |-> last.path, source |-> last.source,
                    added     |-> added,
                    stripped  |-> withoutGrayPrefix(last.source, added),
                    bare      |-> withoutGrayPrefix(last.source, <<"/">> \o last.path),
                    delegated |-> routeApiProxy(Call("navigateTo", added, FALSE),
                                                stack, storage).url]
    /\ UNCHANGED <<isGrayVersionOpen, storage, wrapDepth, pages, enterQuery, pending, sinceEnable>>

NextPrefix == AddThenStrip

SpecPrefix == InitPrefix /\ [][NextPrefix]_vars

(***************************************************************************)
(* C15: for every path that does not carry the canary prefix, adding the   *)
(* prefix as the interceptor and the Redirect Trigger do and stripping it  *)
(* as the interceptor does on its input returns the path; stripping a path *)
(* without the prefix returns it unchanged.                                *)
(***************************************************************************)
C15_AddThenStripIsIdentity ==
    (last.op = "addThenStrip" /\ ~startsWith(last.path, CanaryPrefix)) =>
        /\ last.stripped = last.path
        /\ last.bare = last.path
        \* no decision is stored: the interceptor delegates the stripped path
        /\ last.delegated = <<"/">> \o last.path

\* a path that begins with the name of the sub-package, not with the prefix, came back whole
C15_Witness ==
    /\ last.op = "addThenStrip"
    /\ startsWith(last.path, SUBPACKAGES_ROOT)
    /\ ~startsWith(last.path, CanaryPrefix)
    /\ Len(last.path) > Len(SUBPACKAGES_ROOT)
    /\ last.stripped = last.path
    /\ last.bare = last.path

(***************************************************************************)
(* C16: whenever the Redirect Trigger issues its replace-navigation, the   *)
(* query string it appends is the query of the page being redirected, the  *)
(* top entry of the navigation stack at the call, also after the user has  *)
(* left the page through which the application was entered.                *)
(***************************************************************************)
C16_QueryOfCurrentPage ==
    (last.op = "redirect" /\ Len(last.navs) > 0) =>
        LET url == last.navs[1].url
        IN  slice(url, Len(urlPath(url))) = urlParamsOf(last.cur.query)

(***************************************************************************)
(* C17: once enableGrayVersion was called with a closed rule, so that the  *)
(* toggle is off, isGrayVersionSync() stays false and no navigation call   *)
(* is delegated with the canary prefix added, in any interleaving, also    *)
(* when an asynchronous identity change started while the feature was on   *)
(* completes after the disabling call.                                     *)
(***************************************************************************)
\* the last enableGrayVersion call was given a closed rule
Disabled == ~isGrayVersionOpen /\ sinceEnable # "never"

C17_DisabledStaysOff ==
    Disabled =>
        /\ ~isGrayVersionSync(storage)
        /\ last.op = "navigate" =>
              \A i \in 1..Len(last.navs) :
                  UrlInCanary(last.navs[i].url) => UrlInCanary(last.given.url)

(***************************************************************************)
(* The wrappers on their own: one navigation call passed through the       *)
(* wrapper of one enableGrayVersion call and through the wrappers of two,  *)
(* on the same page and with the same record in storage.                   *)
(***************************************************************************)
UrlGrayGrayA == <<"/">> \o SUBPACKAGES_ROOT \o <<"/">> \o GrayPageA

WrapUrls ==
    NavUrls \cup {UrlGrayGrayA,
                  <<"/">> \o PageN,
                  <<".",".","/">> \o GrayPageA,
                  <<"a">>}

WrapRecords == {<<>>, <<withDecision(RuleArea, TRUE)>>, <<withDecision(RuleArea, FALSE)>>}

InitWrap ==
    /\ isGrayVersionOpen = TRUE
    /\ storage \in WrapRecords
    /\ wrapDepth = 2
    /\ enterQuery = NoQuery
    /\ \E route \in AppPages : pages = <<[route |-> route, query |-> NoQuery]>>
    /\ pending = <<>>
    /\ sinceEnable = IF storage = <<>> THEN "none" ELSE "fresh"
    /\ \E api \in NavApis, url \in WrapUrls, notProxy \in BOOLEAN :
          last = [op |-> "arguments", given |-> Call(api, url, notProxy)]

\* the object that reaches the platform's operation through one wrapper, through two,
\* and when the object delegated by one wrapper is passed to the wrapped operation again
WxProxyTwice ==
    /\ last.op = "arguments"
    /\ LET once == wxProxy(last.given, 1, pages, storage)
       IN  last' = [op |-> "wxProxy", given |-> last.given,
                    once  |-> once,
                    twice |-> wxProxy(last.given, 2, pages, storage),
                    again |-> routeApiProxy(Call(once.api, once.url, once.notProxy),
                                            pages, storage)]
    /\ UNCHANGED <<isGrayVersionOpen, storage, wrapDepth, pages, enterQuery, pending, sinceEnable>>

NextWrap == WxProxyTwice

SpecWrap == InitWrap /\ [][NextWrap]_vars

(***************************************************************************)
(* C18: a second enableGrayVersion call with an open rule wraps the        *)
(* wrapped navigation operations again, and the rewrite is idempotent: the *)
(* path delegated through two wrappers is the one delegated through one,   *)
(* and the rewrite of its own output, under the same decision, is that     *)
(* output.                                                                 *)
(*   As claimed: for every navigation call and every persisted decision.   *)
(*   As amended: for every navigation call whose target, resolved against  *)
(*   the current page, carries the canary prefix at most once.             *)
(***************************************************************************)
C18_SameDelegation ==
    /\ last.twice.api = last.once.api
    /\ last.twice.url = last.once.url
    /\ last.twice.notProxy = last.once.notProxy
    /\ last.again.url = last.once.url

\* C18 as claimed: two wrappers delegate what one delegates, for every navigation call
C18_RewriteIdempotent ==
    last.op = "wxProxy" => C18_SameDelegation

\* the target, resolved and with one prefix removed, still begins with the prefix
PrefixedTwice(given, pgs) ==
    startsWith(withoutGrayPrefix(currentPage(pgs).route, given.url), CanaryPrefix)

\* C18 as amended: two wrappers delegate what one delegates, unless the target carries
\* the canary prefix twice
C18_RewriteIdempotentOncePrefixed ==
    (last.op = "wxProxy" /\ (last.given.notProxy \/ ~PrefixedTwice(last.given, pages)))
        => C18_SameDelegation

\* a relative url was resolved and prefixed by the first wrapper and passed the second as it was
C18_Witness ==
    /\ last.op = "wxProxy"
    /\ ~last.given.notProxy
    /\ ~startsWith(last.given.url, <<"/">>)
    /\ UrlInCanary(last.once.url)
    /\ last.twice.url = last.once.url
    /\ last.twice.preads = 2

(***************************************************************************)
(* C19: setGrayVersionStorageSync and redirectToGrayPage change only the   *)
(* isGrayVersion field of the persisted record: isOpen, areaCode,          *)
(* phonePrefix, whiteList, all and isTest are after the call what they     *)
(* were before it, and neither call issues a network request.              *)
(***************************************************************************)
RuleFields == {"isOpen", "areaCode", "phonePrefix", "whiteList", "all", "isTest"}

\* the rule fields of two records are the same fields with the same values
SameRule(before, after) ==
    \A f \in RuleFields :
        /\ (f \in DOMAIN after) = (f \in DOMAIN before)
        /\ f \in DOMAIN before => after[f] = before[f]

C19_Step ==
    last'.op \in {"setSync", "redirect"} =>
        /\ SameRule(getStorageSync(storage), getStorageSync(storage'))
        /\ DOMAIN getStorageSync(storage') \subseteq RuleFields \cup {"isGrayVersion"}
        /\ last'.reqs = 0

\* C19: the synchronous identity change and the Redirect Trigger keep every rule field
C19_OnlyDecisionChanges == [][C19_Step]_vars

\* the synchronous identity change turned the decision of a rule fetched from the backend
C19_Witness ==
    /\ last.op = "setSync"
    /\ last.swrites = 1
    /\ last.prev # last.fresh
    /\ SameRule(RuleArea, getStorageSync(storage))

(***************************************************************************)
(* C20: in every reachable state, whatever the interleaving of enable      *)
(* calls, identity changes of both variants, completions of requests and   *)
(* Redirect Trigger calls, the persisted decision agrees with the rule     *)
(* stored in the same record: isGrayVersion true implies isOpen true, and  *)
(* a missing record reads as the decision false.                           *)
(***************************************************************************)
C20_DecisionConsistentWithRule ==
    /\ isGrayVersionSync(storage) =>
          /\ Len(storage) = 1
          /\ "isOpen" \in DOMAIN getStorageSync(storage)
          /\ getStorageSync(storage).isOpen
    /\ storage = <<>> => ~isGrayVersionSync(storage)

\* a call suspended across the disabling call wrote a gray decision, with its open rule
C20_Witness ==
    /\ Disabled
    /\ last.op = "resume"
    /\ isGrayVersionSync(storage)
    /\ getStorageSync(storage).isOpen

====
